---------------------------- MODULE Spec2Model ----------------------------
(***************************************************************************)
(* A model of src/ro_le_ma.py: the RO-LE-MA converter (ROLemaCore) and     *)
(* the interactive shell that drives it (ROLemaCLI).                       *)
(*                                                                         *)
(* A Python str is a sequence of characters; a character is a one-element  *)
(* atom written as a TLA+ string ("a", "7", "_", " ").  Two characters     *)
(* outside ASCII are carried because Python's str.upper and the re module  *)
(* treat them specially: "U+01F0" (LATIN SMALL LETTER J WITH CARON, a      *)
(* letter whose upper-case form is the two characters "J" "U+030C") and    *)
(* "U+030C" (COMBINING CARON, a mark that \w does not match).              *)
(***************************************************************************)
EXTENDS Integers, Sequences, FiniteSets, TLC

VARIABLES
    text,        \* SpecClean: the argument of clean_text
    cleaned,     \* SpecClean: clean_text(text)
    recleaned,   \* SpecClean: clean_text(clean_text(text))
    word,        \* SpecAbbrev: the argument of get_three_letters
    chunk,       \* SpecAbbrev: get_three_letters(word)
    pc,          \* position of the driver of the specification at hand
    stats,       \* ROLemaCore.stats of the converter
    result,      \* what the last call of convert on it returned
    args,        \* the arguments of that call
    calls,       \* how many times convert was called on it
    clock,       \* datetime.now(), in ticks
    statsB,      \* SpecTwo: ROLemaCore.stats of a second converter
    resultB,     \* SpecTwo: what the last call of convert on it returned
    argsB,       \* SpecTwo: the arguments of that call
    history,     \* SpecCLI: ROLemaCLI.history
    outcome      \* SpecCLI: what the last command of the shell did

vars == <<text, cleaned, recleaned, word, chunk, pc, stats, result, args,
          calls, clock, statsB, resultB, argsB, history, outcome>>

-----------------------------------------------------------------------------
(* Bounds of the model. *)

MaxCleanLen == 4     \* SpecClean: longest argument of clean_text
MaxWordLen == 4      \* SpecAbbrev: longest argument of get_three_letters
MaxTextLen == 4      \* SpecConvert: longest argument of convert
MaxCalls == 3        \* Spec: calls of convert on the one converter
MaxTwoCalls == 3     \* SpecTwo: calls of convert on the two converters together
MaxLineLen == 2      \* SpecCLI: longest line typed
MaxItems == 2        \* SpecCLI: most items of one batch
MaxHistory == 3      \* SpecCLI: most records in the history
MaxClock == 3        \* SpecCLI: calls of convert in one session

\* All sequences over S of length at most n.
SeqsUpTo(S, n) == UNION {[1..k -> S] : k \in 0..n}

-----------------------------------------------------------------------------
(* Characters and the str methods the program uses. *)

LowerLetters == <<"a","b","c","d","e","f","g","h","i","j","k","l","m",
                  "n","o","p","q","r","s","t","u","v","w","x","y","z">>
UpperLetters == <<"A","B","C","D","E","F","G","H","I","J","K","L","M",
                  "N","O","P","Q","R","S","T","U","V","W","X","Y","Z">>
Digits == {"0","1","2","3","4","5","6","7","8","9"}

Range(s) == {s[i] : i \in DOMAIN s}

IndexIn(c, s) == CHOOSE i \in DOMAIN s : s[i] = c

LowerSet == Range(LowerLetters)
UpperSet == Range(UpperLetters)

IsLowerChar(c) == c \in LowerSet \cup {"U+01F0"}
IsUpperChar(c) == c \in UpperSet
IsAlphaChar(c) == IsLowerChar(c) \/ IsUpperChar(c)
IsDigitChar(c) == c \in Digits
\* \s of the re module, and the separators of str.split() and str.strip()
IsSpaceChar(c) == c \in {" ", "\t"}
\* \w of the re module: str.isalnum() or the underscore
IsWordChar(c) == IsAlphaChar(c) \/ IsDigitChar(c) \/ c = "_"

\* str.upper() of one character: a string of one or more characters
CharUpper(c) ==
    IF c \in LowerSet THEN <<UpperLetters[IndexIn(c, LowerLetters)]>>
    ELSE IF c = "U+01F0" THEN <<"J", "U+030C">>
    ELSE <<c>>

\* str.lower() of one character
CharLower(c) ==
    IF c \in UpperSet THEN LowerLetters[IndexIn(c, UpperLetters)]
    ELSE c

RECURSIVE upper(_)
upper(s) == IF s = <<>> THEN <<>> ELSE CharUpper(Head(s)) \o upper(Tail(s))

lower(s) == [i \in DOMAIN s |-> CharLower(s[i])]

\* str.isdigit(): at least one character, and all of them digits
isdigit(s) == s # <<>> /\ \A i \in DOMAIN s : IsDigitChar(s[i])

\* str.isalpha()
isalpha(s) == s # <<>> /\ \A i \in DOMAIN s : IsAlphaChar(s[i])

\* str.zfill(width) of a string with no sign
RECURSIVE zfill(_, _)
zfill(s, width) == IF Len(s) >= width THEN s ELSE zfill(<<"0">> \o s, width)

\* str.split() with no argument: the maximal runs of non-whitespace
RECURSIVE SplitFrom(_, _, _)
SplitFrom(s, i, cur) ==
    IF i > Len(s) THEN (IF cur = <<>> THEN <<>> ELSE <<cur>>)
    ELSE IF IsSpaceChar(s[i])
         THEN (IF cur = <<>> THEN <<>> ELSE <<cur>>) \o SplitFrom(s, i + 1, <<>>)
         ELSE SplitFrom(s, i + 1, Append(cur, s[i]))

split(s) == SplitFrom(s, 1, <<>>)

\* sep.join(parts)
RECURSIVE join(_, _)
join(sep, parts) ==
    IF parts = <<>> THEN <<>>
    ELSE IF Len(parts) = 1 THEN parts[1]
    ELSE parts[1] \o sep \o join(sep, Tail(parts))

\* str.strip()
RECURSIVE lstrip(_)
lstrip(s) == IF s # <<>> /\ IsSpaceChar(Head(s)) THEN lstrip(Tail(s)) ELSE s

RECURSIVE rstrip(_)
rstrip(s) ==
    IF s # <<>> /\ IsSpaceChar(s[Len(s)]) THEN rstrip(SubSeq(s, 1, Len(s) - 1)) ELSE s

strip(s) == rstrip(lstrip(s))

\* re.sub(r'[^\w\s-]', '', text)
KeptByPattern(c) == IsWordChar(c) \/ IsSpaceChar(c) \/ c = "-"

re_sub(s) == SelectSeq(s, KeptByPattern)

\* text.replace('-', ' ')
replace_hyphens(s) == [i \in DOMAIN s |-> IF s[i] = "-" THEN " " ELSE s[i]]

-----------------------------------------------------------------------------
(* ROLemaCore *)

clean_text(t) ==
    IF t = <<>> THEN <<>>
    ELSE join(<<" ">>, split(upper(replace_hyphens(re_sub(t)))))

\* self.special_cases
special_cases ==
    (<<"m","c","d","o","n","a","l","d","s">> :> <<"M","C","D">>) @@
    (<<"k","f","c">> :> <<"K","F","C">>) @@
    (<<"b","m","w">> :> <<"B","M","W">>) @@
    (<<"i","p","h","o","n","e">> :> <<"I","P","H">>) @@
    (<<"u","s","a">> :> <<"U","S","A">>) @@
    (<<"u","k">> :> <<"U","K","X">>) @@
    (<<"a","i">> :> <<"A","I","X">>) @@
    (<<"n","i","k","e">> :> <<"N","I","K">>) @@
    (<<"a","d","i","d","a","s">> :> <<"A","D","I">>) @@
    (<<"g","o","o","g","l","e">> :> <<"G","O","O">>)

\* self.stop_words
stop_words ==
    {<<"t","h","e">>,
     <<"a","n","d">>,
     <<"o","f">>,
     <<"f","o","r">>,
     <<"i","n">>,
     <<"o","n">>,
     <<"a","t">>,
     <<"b","y">>,
     <<"a">>,
     <<"a","n">>}

\* self.stats after __init__
InitStats == [conversions |-> 0, unique_codes |-> {}]

\* pad_digits keeping the last three characters: word.zfill(3)[-3:]
pad_digits_last(w) == LET z == zfill(w, 3) IN SubSeq(z, Len(z) - 2, Len(z))

\* word.zfill(3)[:3]
pad_digits(w) == SubSeq(zfill(w, 3), 1, 3)

\* pad_short padding a word of two characters like a word of one
pad_short_double(w) ==
    IF Len(w) = 1 THEN w \o <<"X", "X">>
    ELSE IF Len(w) = 2 THEN w \o <<"X", "X">>
    ELSE SubSeq(w, 1, 3)

\* the short-word rules, and the first three characters
pad_short(w) ==
    IF Len(w) = 1 THEN w \o <<"X", "X">>
    ELSE IF Len(w) = 2 THEN w \o <<"X">>
    ELSE SubSeq(w, 1, 3)

get_three_letters(w0) ==
    LET w == upper(w0) IN
    IF lower(w) \in DOMAIN special_cases THEN special_cases[lower(w)]
    ELSE IF isdigit(w) THEN pad_digits(w)
    ELSE pad_short(w)

NotStopWord(w) == lower(w) \notin stop_words

\* filter_stop_words comparing the words as they are: w not in self.stop_words
filter_no_lower(ws) == SelectSeq(ws, LAMBDA w : w \notin stop_words)

\* words = [w for w in words if w.lower() not in self.stop_words]
filter_stop_words(ws) == SelectSeq(ws, NotStopWord)

\* chunks = [self.get_three_letters(word) for word in words]
make_chunks(ws) == [i \in DOMAIN ws |-> get_three_letters(ws[i])]

\* make_code with a space for the separator
make_code_spaced(chunks) == join(<<" ">>, chunks)

\* code = '-'.join(chunks)
make_code(chunks) == join(<<"-">>, chunks)

\* 'compact': ''.join(chunks)
make_compact(chunks) == join(<<>>, chunks)

\* update_stats counting a conversion only when its code is new
update_stats_new_only(st, code) ==
    [conversions |-> IF code \in st.unique_codes THEN st.conversions
                     ELSE st.conversions + 1,
     unique_codes |-> st.unique_codes \cup {code}]

\* self.stats['conversions'] += 1; self.stats['unique_codes'].add(code)
update_stats(st, code) ==
    [conversions |-> st.conversions + 1,
     unique_codes |-> st.unique_codes \cup {code}]

\* error_return after the counter was raised
error_return_counted(st, original) ==
    [ret |-> [error |-> "Empty input", original |-> original],
     stats |-> [st EXCEPT !.conversions = @ + 1]]

\* if not cleaned: return {'error': 'Empty input', 'original': original}
error_return(st, original) ==
    [ret |-> [error |-> "Empty input", original |-> original],
     stats |-> st]

\* make_result leaving the code out when the converter produced it before
make_result_seen(st, original, cl, ws, chunks, now) ==
    [original |-> original,
     cleaned |-> cl,
     words |-> ws,
     code |-> IF make_code(chunks) \in st.unique_codes THEN <<>>
              ELSE make_code(chunks),
     compact |-> make_compact(chunks),
     chunks |-> chunks,
     length |-> Len(chunks),
     timestamp |-> now]

\* the dict convert returns for its chunks
make_result(st, original, cl, ws, chunks, now) ==
    [original |-> original,
     cleaned |-> cl,
     words |-> ws,
     code |-> make_code(chunks),
     compact |-> make_compact(chunks),
     chunks |-> chunks,
     length |-> Len(chunks),
     timestamp |-> now]

\* convert(text, skip_stop_words) on a converter whose stats are st, at time
\* now: what it returns (ret) and the stats it leaves (stats).  A dict is a
\* record; the error result has the keys error and original only.
convert(st, t, skip_stop_words, now) ==
    LET original == t
        cl == clean_text(t)
    IN  IF cl = <<>>
        THEN error_return(st, original)
        ELSE LET ws0 == split(cl)
                 ws == IF skip_stop_words THEN filter_stop_words(ws0) ELSE ws0
                 chunks == make_chunks(ws)
             IN  [ret |-> make_result(st, original, cl, ws, chunks, now),
                  stats |-> update_stats(st, make_code(chunks))]

\* export_csv(results, filename): the rows written to the file before the
\* loop ends or r['code'] raises KeyError on a record that has no code.
RECURSIVE export_csv(_)
export_csv(results) ==
    IF results = <<>> THEN [rows |-> <<>>, raised |-> FALSE]
    ELSE LET r == Head(results) IN
         IF {"original", "code", "compact", "length", "timestamp"} \subseteq DOMAIN r
         THEN LET rest == export_csv(Tail(results)) IN
              [rows |-> <<<<r.original, r.code, r.compact, r.length, r.timestamp>>>>
                        \o rest.rows,
               raised |-> rest.raised]
         ELSE [rows |-> <<>>, raised |-> TRUE]

\* batch_convert(items): the loop over items, one tick of the clock per call
\* of convert; results in order, and the stats left.
RECURSIVE batch_convert(_, _, _)
batch_convert(st, items, now) ==
    IF items = <<>> THEN [results |-> <<>>, stats |-> st, now |-> now]
    ELSE IF strip(Head(items)) # <<>>
         THEN LET c == convert(st, Head(items), TRUE, now)
                  rest == batch_convert(c.stats, Tail(items), now + 1)
              IN  [results |-> <<c.ret>> \o rest.results,
                   stats |-> rest.stats, now |-> rest.now]
         ELSE batch_convert(st, Tail(items), now)

\* len(self.special_cases)
NumSpecialCases == Cardinality(DOMAIN special_cases)

get_stats(st) ==
    [version |-> "0.1.0",
     total_conversions |-> st.conversions,
     unique_codes_generated |-> Cardinality(st.unique_codes),
     special_cases |-> NumSpecialCases]

-----------------------------------------------------------------------------
(* The inputs of each specification. *)

\* clean_text: every string of at most MaxCleanLen of these characters
CleanChars == {"a", "A", "7", "_", "-", " ", "\t", "!", "U+01F0"}
CleanTexts == SeqsUpTo(CleanChars, MaxCleanLen)

\* get_three_letters: every non-empty word of at most MaxWordLen of these
\* characters, and the keys of special_cases in lower and in upper case
WordChars == {"a", "i", "A", "I", "4", "7", "_", "U+01F0", "U+030C"}
Words == (SeqsUpTo(WordChars, MaxWordLen) \ {<<>>})
         \cup DOMAIN special_cases
         \cup {upper(k) : k \in DOMAIN special_cases}
         \cup {<<"7">>, <<"4","2">>, <<"1","2","3","4">>}

\* one call of convert: every string of at most MaxTextLen of these
TextChars == {"a", "n", "T", "7", "_", " ", "-", "!"}
Texts == SeqsUpTo(TextChars, MaxTextLen)

\* a session of calls on one converter: the examples of the documentation
\* and of quick_test, and the inputs that clean to nothing
SampleTexts ==
    {<<>>,
     <<" "," "," ">>,
     <<"!","!","!">>,
     <<"E","i","f","f","e","l"," ","T","o","w","e","r">>,
     <<"e","i","f","f","e","l","-","t","o","w","e","r">>,
     <<"T","h","e"," ","S","t","a","t","u","e"," ","o","f"," ","L","i","b","e","r","t","y">>,
     <<"t","h","e"," ","o","f">>,
     <<"i","P","h","o","n","e"," ","1","5"," ","P","r","o"," ","M","a","x">>,
     <<"a","_","b">>}

\* two converters side by side
TwoTexts ==
    {<<>>,
     <<"t","h","e"," ","o","f">>,
     <<"E","i","f","f","e","l"," ","T","o","w","e","r">>,
     <<"e","i","f","f","e","l","-","t","o","w","e","r">>,
     <<"!","!","!">>}

\* the shell: a line is what input().strip() returns
LineChars == {"a", "n", "!"}
Lines == SeqsUpTo(LineChars, MaxLineLen) \ {<<>>}
Batches == SeqsUpTo(Lines, MaxItems) \ {<<>>}

-----------------------------------------------------------------------------
(* State before anything is called. *)

NoResult == [none |-> TRUE]
NoArgs == [called |-> FALSE]
NoCalls == [n |-> 0, ok |-> 0, codes |-> {}]
NoOutcome == [cmd |-> "none"]

IdleClean == text = <<>> /\ cleaned = <<>> /\ recleaned = <<>>
IdleAbbrev == word = <<>> /\ chunk = <<>>
FreshCore == stats = InitStats /\ result = NoResult /\ args = NoArgs
             /\ calls = NoCalls /\ clock = 0
FreshCoreB == statsB = InitStats /\ resultB = NoResult /\ argsB = NoArgs
FreshCLI == history = <<>> /\ outcome = NoOutcome

cleanVars == <<text, cleaned, recleaned>>
abbrevVars == <<word, chunk>>
coreVars == <<stats, result, args, calls, clock>>
coreBVars == <<statsB, resultB, argsB>>
cliVars == <<history, outcome>>

\* the calls made so far, with one more that returned r
Counted(c, r) ==
    IF "error" \in DOMAIN r
    THEN [c EXCEPT !.n = @ + 1]
    ELSE [n |-> c.n + 1, ok |-> c.ok + 1, codes |-> c.codes \cup {r.code}]

-----------------------------------------------------------------------------
(* SpecClean: clean_text applied to a string, and to its own output. *)

InitClean ==
    /\ text \in CleanTexts /\ cleaned = <<>> /\ recleaned = <<>>
    /\ pc = "call"
    /\ IdleAbbrev /\ FreshCore /\ FreshCoreB /\ FreshCLI

CleanText ==
    /\ pc = "call"
    /\ cleaned' = clean_text(text)
    /\ pc' = "again"
    /\ UNCHANGED <<text, recleaned, abbrevVars, coreVars, coreBVars, cliVars>>

CleanAgain ==
    /\ pc = "again"
    /\ recleaned' = clean_text(cleaned)
    /\ pc' = "done"
    /\ UNCHANGED <<text, cleaned, abbrevVars, coreVars, coreBVars, cliVars>>

NextClean == CleanText \/ CleanAgain

SpecClean == InitClean /\ [][NextClean]_vars

-----------------------------------------------------------------------------
(* SpecAbbrev: get_three_letters applied to a word. *)

InitAbbrev ==
    /\ word \in Words /\ chunk = <<>>
    /\ pc = "call"
    /\ IdleClean /\ FreshCore /\ FreshCoreB /\ FreshCLI

GetThreeLetters ==
    /\ pc = "call"
    /\ chunk' = get_three_letters(word)
    /\ pc' = "done"
    /\ UNCHANGED <<word, cleanVars, coreVars, coreBVars, cliVars>>

NextAbbrev == GetThreeLetters

SpecAbbrev == InitAbbrev /\ [][NextAbbrev]_vars

-----------------------------------------------------------------------------
(* Spec: a session of calls of convert on one converter.                   *)
(* SpecConvert: one call of convert on a new converter, every short text.  *)

Init ==
    /\ pc = "idle"
    /\ IdleClean /\ IdleAbbrev /\ FreshCore /\ FreshCoreB /\ FreshCLI

\* core.convert(t, skip)
Convert(t, skip) ==
    LET c == convert(stats, t, skip, clock) IN
    /\ stats' = c.stats
    /\ result' = c.ret
    /\ args' = [called |-> TRUE, text |-> t, skip |-> skip, before |-> stats]
    /\ calls' = Counted(calls, c.ret)
    /\ clock' = clock + 1
    /\ UNCHANGED <<pc, cleanVars, abbrevVars, coreBVars, cliVars>>

Next ==
    \E t \in SampleTexts, skip \in BOOLEAN :
        calls.n < MaxCalls /\ Convert(t, skip)

Spec == Init /\ [][Next]_vars

\* one call on a new converter, its text drawn beforehand
InitConvert ==
    /\ text \in Texts /\ cleaned = <<>> /\ recleaned = <<>>
    /\ pc = "idle"
    /\ IdleAbbrev /\ FreshCore /\ FreshCoreB /\ FreshCLI

NextConvert ==
    \E skip \in BOOLEAN :
        calls.n = 0 /\ Convert(text, skip)

SpecConvert == InitConvert /\ [][NextConvert]_vars

-----------------------------------------------------------------------------
(* SpecTwo: two converters, each with its own calls.                       *)

\* the same call on the second converter
ConvertB(t, skip) ==
    LET c == convert(statsB, t, skip, clock) IN
    /\ statsB' = c.stats
    /\ resultB' = c.ret
    /\ argsB' = [called |-> TRUE, text |-> t, skip |-> skip, before |-> statsB]
    /\ calls' = Counted(calls, c.ret)
    /\ clock' = clock + 1
    /\ UNCHANGED <<pc, cleanVars, abbrevVars, stats, result, args, cliVars>>

ConvertA(t, skip) == Convert(t, skip)

NextTwo ==
    \E t \in TwoTexts, skip \in BOOLEAN :
        /\ calls.n < MaxTwoCalls
        /\ (ConvertA(t, skip) \/ ConvertB(t, skip))

SpecTwo == Init /\ [][NextTwo]_vars

-----------------------------------------------------------------------------
(* SpecCLI: ROLemaCLI.run_interactive, one command per step.               *)

\* for r in results: print(f"  {r['original']:<30} -> {r['code']}")
\* the lines printed before the loop ends or r['code'] raises KeyError
RECURSIVE print_results(_)
print_results(results) ==
    IF results = <<>> THEN [printed |-> <<>>, raised |-> FALSE]
    ELSE LET r == Head(results) IN
         IF {"original", "code"} \subseteq DOMAIN r
         THEN LET rest == print_results(Tail(results)) IN
              [printed |-> <<<<r.original, r.code>>>> \o rest.printed,
               raised |-> rest.raised]
         ELSE [printed |-> <<>>, raised |-> TRUE]

\* ro-le-ma> convert <t>
CmdConvert(t) ==
    LET c == convert(stats, t, TRUE, clock) IN
    /\ clock < MaxClock
    /\ Len(history) < MaxHistory
    /\ stats' = c.stats
    /\ clock' = clock + 1
    /\ IF "error" \in DOMAIN c.ret
       THEN /\ history' = history
            /\ outcome' = [cmd |-> "convert", error |-> c.ret.error]
       ELSE /\ history' = Append(history, c.ret)
            /\ outcome' = [cmd |-> "convert", code |-> c.ret.code]
    /\ UNCHANGED <<pc, cleanVars, abbrevVars, result, args, calls, coreBVars>>

\* ro-le-ma> batch, then the items, then an empty line
CmdBatch(items) ==
    LET b == batch_convert(stats, items, clock)
        p == print_results(b.results)
    IN
    /\ clock + Len(items) <= MaxClock
    /\ Len(history) + Len(items) <= MaxHistory
    /\ stats' = b.stats
    /\ clock' = b.now
    /\ history' = history \o b.results
    /\ outcome' = [cmd |-> "batch", results |-> b.results,
                   printed |-> p.printed, raised |-> p.raised]
    /\ UNCHANGED <<pc, cleanVars, abbrevVars, result, args, calls, coreBVars>>

\* ro-le-ma> clear
CmdClear ==
    /\ history' = <<>>
    /\ outcome' = [cmd |-> "clear"]
    /\ UNCHANGED <<pc, cleanVars, abbrevVars, coreVars, coreBVars>>

\* ro-le-ma> export <filename>
CmdExport ==
    /\ IF history # <<>>
       THEN LET e == export_csv(history) IN
            outcome' = [cmd |-> "export", rows |-> e.rows, raised |-> e.raised]
       ELSE outcome' = [cmd |-> "export", rows |-> <<>>, raised |-> FALSE]
    /\ UNCHANGED <<pc, cleanVars, abbrevVars, coreVars, coreBVars, history>>

NextCLI ==
    \/ \E t \in Lines : CmdConvert(t)
    \/ \E items \in Batches : CmdBatch(items)
    \/ CmdClear
    \/ CmdExport

SpecCLI == Init /\ [][NextCLI]_vars

-----------------------------------------------------------------------------
(* Properties. *)

IsError(r) == "error" \in DOMAIN r

\* the total length of the first k of the strings
RECURSIVE SumLen(_, _)
SumLen(parts, k) == IF k = 0 THEN 0 ELSE SumLen(parts, k - 1) + Len(parts[k])

\* s is the strings laid end to end, with the character sep between two
\* neighbours (sep = "": with nothing between them)
LaidOut(s, parts, sep) ==
    LET n == Len(parts)
        gap == IF sep = "" THEN 0 ELSE 1
        off(i) == SumLen(parts, i - 1) + (i - 1) * gap
    IN  /\ Len(s) = IF n = 0 THEN 0 ELSE SumLen(parts, n) + (n - 1) * gap
        /\ \A i \in 1..n :
              SubSeq(s, off(i) + 1, off(i) + Len(parts[i])) = parts[i]
        /\ \A i \in 1..(n - 1) :
              gap = 1 => s[off(i) + Len(parts[i]) + 1] = sep

\* C1: a text whose normalized form is not empty converts, with either
\* flag, to a result that is no error, whose code is its chunks joined by
\* one '-', whose compact is the chunks with nothing between, and whose
\* length is the number of chunks, one for each surviving word in order.
C1_CodeIsChunksJoined ==
    (args.called /\ clean_text(args.text) # <<>>) =>
        /\ ~IsError(result)
        /\ LaidOut(result.code, result.chunks, "-")
        /\ LaidOut(result.compact, result.chunks, "")
        /\ result.length = Len(result.chunks)
        /\ Len(result.chunks) = Len(result.words)
        /\ \A i \in 1..Len(result.words) :
              result.chunks[i] = get_three_letters(result.words[i])

C1_Witness ==
    /\ args.called /\ ~args.skip
    /\ ~IsError(result)
    /\ Len(result.chunks) = 2
    /\ result.chunks[1] # result.chunks[2]

\* C2: a text that normalizes to the empty string converts to the error
\* result, which carries the original text and no code, and the
\* converter's conversion counter and set of codes are as before the call.
C2_EmptyInputLeavesStats ==
    (args.called /\ clean_text(args.text) = <<>>) =>
        /\ IsError(result)
        /\ result.original = args.text
        /\ DOMAIN result = {"error", "original"}
        /\ stats = args.before

C2_Witness ==
    /\ args.called
    /\ args.text = <<"!","!","!">>
    /\ IsError(result)
    /\ stats.conversions = 2
    /\ Cardinality(stats.unique_codes) = 2

\* C3 as stated: after N calls of convert, total_conversions is N and
\* unique_codes_generated is the number of distinct codes returned.
C3_EveryCallCounted ==
    /\ get_stats(stats).total_conversions = calls.n
    /\ get_stats(stats).unique_codes_generated = Cardinality(calls.codes)

\* C3, amended: after N calls of convert, total_conversions is the number
\* of those calls that returned a result that is no error, and
\* unique_codes_generated is the number of distinct codes they returned.
C3_SuccessfulCallsCounted ==
    /\ get_stats(stats).total_conversions = calls.ok
    /\ get_stats(stats).unique_codes_generated = Cardinality(calls.codes)

C3_Witness ==
    /\ calls.n = 3 /\ calls.ok = 2
    /\ get_stats(stats).total_conversions = 2
    /\ get_stats(stats).unique_codes_generated = 1

\* the characters the output of normalize may hold, besides the space
IsUpperOrDigit(c) == IsUpperChar(c) \/ IsDigitChar(c)

\* C4: the output of clean_text is empty, or holds only upper-case letters,
\* digits and single spaces, with no space first or last and no two
\* spaces side by side.
C4_OnlyUpperDigitsSpaces ==
    pc # "call" =>
        \/ cleaned = <<>>
        \/ /\ \A i \in 1..Len(cleaned) :
                  IsUpperOrDigit(cleaned[i]) \/ cleaned[i] = " "
           /\ cleaned[1] # " " /\ cleaned[Len(cleaned)] # " "
           /\ \A i \in 1..(Len(cleaned) - 1) :
                  ~(cleaned[i] = " " /\ cleaned[i + 1] = " ")

\* a word as clean_text leaves it: upper-casing does not change it
Normalized(w) == upper(w) = w

\* C5 as stated: a word of one alphabetic character W abbreviates to W
\* followed by 'XX', a word of two characters W, whatever they are, to W
\* followed by 'X'.
C5_ShortWordsPadded ==
    (pc = "done" /\ Normalized(word)) =>
        /\ (Len(word) = 1 /\ isalpha(word)) => chunk = word \o <<"X","X">>
        /\ Len(word) = 2 => chunk = word \o <<"X">>

\* C5, amended: a word of one alphabetic character W abbreviates to W
\* followed by 'XX'; a word of two characters W that are not both digits
\* abbreviates to W followed by 'X' unless its lower-case form is a key of
\* the special-case table, and then to the stored value; a word of two
\* digits abbreviates to '0' followed by W.
C5_ShortWordsPaddedUnlessDigits ==
    (pc = "done" /\ Normalized(word)) =>
        /\ (Len(word) = 1 /\ isalpha(word)) => chunk = word \o <<"X","X">>
        /\ (Len(word) = 2 /\ ~isdigit(word)
              /\ lower(word) \notin DOMAIN special_cases)
            => chunk = word \o <<"X">>
        /\ (Len(word) = 2 /\ lower(word) \in DOMAIN special_cases)
            => chunk = special_cases[lower(word)]
        /\ (Len(word) = 2 /\ isdigit(word)) => chunk = <<"0">> \o word

C5_Witness ==
    /\ pc = "done"
    /\ word = <<"A","_">>
    /\ chunk = <<"A","_","X">>

\* C6: get_three_letters returns what the first rule that applies gives:
\* the stored value for a word whose lower-case form is a key of the
\* special-case table, whatever its length; else, for a word of digits,
\* the digits with '0' put before them up to 3 characters, cut to the first
\* 3 ("7" -> "007", "42" -> "042", "1234" -> "123"); else the upper-cased
\* word followed by 'XX' (one character) or 'X' (two), or its first three
\* characters.
C6_FirstRuleThatApplies ==
    pc = "done" =>
        LET u == upper(word) IN
        /\ IF lower(word) \in DOMAIN special_cases
           THEN chunk = special_cases[lower(word)]
           ELSE IF isdigit(word)
           THEN /\ Len(chunk) = 3
                /\ Len(word) = 1 => chunk = <<"0","0">> \o word
                /\ Len(word) = 2 => chunk = <<"0">> \o word
                /\ Len(word) >= 3 => \A i \in 1..3 : chunk[i] = word[i]
           ELSE /\ Len(u) = 1 => chunk = u \o <<"X","X">>
                /\ Len(u) = 2 => chunk = u \o <<"X">>
                /\ Len(u) >= 3 => (Len(chunk) = 3
                                   /\ \A i \in 1..3 : chunk[i] = u[i])
        /\ word = <<"7">> => chunk = <<"0","0","7">>
        /\ word = <<"4","2">> => chunk = <<"0","4","2">>
        /\ word = <<"1","2","3","4">> => chunk = <<"1","2","3">>

C6_Witness ==
    /\ pc = "done"
    /\ word = <<"1","2","3","4">>
    /\ chunk = <<"1","2","3">>

\* the words of ws whose lower-case form is no stop word, in order
RECURSIVE Survivors(_)
Survivors(ws) ==
    IF ws = <<>> THEN <<>>
    ELSE IF lower(Head(ws)) \in stop_words THEN Survivors(Tail(ws))
    ELSE <<Head(ws)>> \o Survivors(Tail(ws))

\* C7: with skip_stop_words the surviving words are the normalized words
\* whose lower-case form is no stop word, in order, however many are
\* removed; a text of stop words only is no error: words and chunks are
\* empty, code and compact are empty, length is 0, the conversion counter
\* goes up by one and the empty code is in the set of codes.
C7_StopWordsRemoved ==
    (args.called /\ args.skip /\ clean_text(args.text) # <<>>) =>
        LET ws == split(clean_text(args.text)) IN
        /\ ~IsError(result)
        /\ result.words = Survivors(ws)
        /\ (\A i \in 1..Len(ws) : lower(ws[i]) \in stop_words) =>
              /\ result.words = <<>> /\ result.chunks = <<>>
              /\ result.code = <<>> /\ result.compact = <<>>
              /\ result.length = 0
              /\ stats.conversions = args.before.conversions + 1
              /\ <<>> \in stats.unique_codes

C7_Witness ==
    /\ args.called /\ args.skip
    /\ ~IsError(result)
    /\ result.cleaned = <<"A"," ","A","N">>
    /\ result.words = <<>>
    /\ stats = [conversions |-> 1, unique_codes |-> {<<>>}]

\* C8: two converters with different histories, called with the same text
\* and the same flag, return results that agree on everything but the
\* timestamp.
C8_SameTextSameResult ==
    (args.called /\ argsB.called
        /\ args.text = argsB.text /\ args.skip = argsB.skip) =>
        /\ DOMAIN result = DOMAIN resultB
        /\ \A k \in DOMAIN result \ {"timestamp"} : result[k] = resultB[k]

C8_Witness ==
    /\ args.called /\ argsB.called
    /\ args.text = argsB.text /\ args.skip = argsB.skip
    /\ ~IsError(result)
    /\ args.before # argsB.before
    /\ result.code \in args.before.unique_codes
    /\ result.code \notin argsB.before.unique_codes
    /\ result.timestamp # resultB.timestamp

\* C9: clean_text is idempotent: clean_text(clean_text(x)) = clean_text(x).
C9_CleanTextIdempotent == pc = "done" => recleaned = cleaned

\* the keys export_csv and the batch printout read
HasExportKeys(r) ==
    {"original", "code", "compact", "length", "timestamp"} \subseteq DOMAIN r

\* C10: every record in the history of the shell, and every record a batch
\* produced, is a result that is no error and carries code, compact,
\* length and timestamp, so neither export_csv nor the batch printout
\* meets a record with no code.
C10_HistoryHoldsOnlyResults ==
    /\ \A i \in 1..Len(history) :
          ~IsError(history[i]) /\ HasExportKeys(history[i])
    /\ outcome.cmd = "batch" =>
          /\ \A i \in 1..Len(outcome.results) : HasExportKeys(outcome.results[i])
          /\ ~outcome.raised
    /\ outcome.cmd = "export" => ~outcome.raised

=============================================================================
